---- MODULE Spec2Model ----
(***************************************************************************)
(* Model of two moonkit pallets:                                           *)
(*   - pallets/author-inherent/src/consensus_hook.rs                       *)
(*       NimbusVelocityConsensusHook::{on_state_proof, can_build_upon}     *)
(*   - pallets/relay-storage-roots/src/lib.rs                              *)
(*       Pallet::set_relay_storage_root and its hooks                      *)
(* The two pallets share no state; each has its own specification.         *)
(***************************************************************************)
EXTENDS Integers, Naturals, Sequences, FiniteSets, TLC

(* ------------------------------ bounds --------------------------------- *)
MaxV == 2
MaxC == 2
MaxSlot == 2
MaxSegment == 2
MaxAuthored == 4
MaxAttempts == 5
MaxRelayNumber == 3
MaxRootsLimit == 3
MaxInserted == 4

Slots == 0..MaxSlot
Hashes == {"h1", "h2"}
RelayBlockNumbers == 0..MaxRelayNumber
H256 == {"r1", "r2"}

(* Option<T>: None is the empty sequence, Some(x) the one-element one. *)
None == <<>>
Some(x) == <<x>>
unwrap(o) == o[1]

VARIABLES
    V,              \* const generic V of NimbusVelocityConsensusHook
    C,              \* const generic C of NimbusVelocityConsensusHook
    slot_info,      \* pallet::Pallet::<T>::get_highest_slot_info(): Option<(Slot, u32)>
    unincluded,     \* parachain_system: unincluded_segment_size_after, per included hash
    last,           \* the last call of the hook and what it returned
    run             \* same-slot attempts since the start: [slot, k]

vvars == <<V, C, slot_info, unincluded, last, run>>

VARIABLES
    MaxStorageRoots,        \* T::MaxStorageRoots::get()
    RelayStorageRoot,       \* StorageMap: relay block number -> relay storage root
    RelayStorageRootKeys,   \* StorageValue: the stored list of keys
    relay_state,            \* the provider's latest current_relay_chain_state()
    observed,               \* distinct relay numbers reported, in order of first report
    inserted,               \* relay numbers reported while they had no map entry, in order
    phase,                  \* "idle" between local blocks, "executing" within one
    upgrade,                \* the runtime upgrade that lowered MaxStorageRoots, if any
    since,                  \* insertions made since that upgrade
    monotone                \* the provider's numbers have never decreased so far

bvars == <<phase, upgrade, since, monotone>>

rvars == <<MaxStorageRoots, RelayStorageRoot, RelayStorageRootKeys, relay_state,
           observed, inserted, bvars>>

vars == <<vvars, rvars>>

(* ------------------------- consensus_hook.rs --------------------------- *)

\* let velocity = V.max(1);
velocity_unclamped == V
velocity == IF V > 1 THEN V ELSE 1

\* sp_std::cmp::max(C, 1)
capacity_unclamped == C
capacity == IF C > 1 THEN C ELSE 1

\* T::DbWeight::get().reads(n): a weight of n storage reads and no write
DbWeight_reads(n) == [reads |-> n, writes |-> 0]

\* get_highest_slot_info().unwrap_or_default()
unwrap_or_default(info) == IF info = None THEN <<0, 0>> ELSE unwrap(info)

\* if authored > velocity + 1 { panic!(..) }
authored_limit_off_by_one(authored) == authored >= velocity + 1
authored_limit_reached(authored) == authored > velocity + 1

\* on_state_proof(state_proof): read_slot is what state_proof.read_slot() gives
on_state_proof(read_slot, info) ==
    IF read_slot = None
    THEN [outcome |-> "panic", msg |-> "failed to read relay chain slot"]
    ELSE LET authored == unwrap_or_default(info)[2] IN
         IF authored_limit_reached(authored)
         THEN [outcome |-> "panic", msg |-> "authored blocks limit is reached for the slot"]
         ELSE [outcome |-> "return", weight |-> DbWeight_reads(1), capacity |-> capacity]

\* if size_after_included >= C { return false; }
segment_full_strict(size_after_included) == size_after_included > C
segment_full(size_after_included) == size_after_included >= C

\* authored_so_far < velocity + 1
same_slot_budget_inclusive(authored_so_far) == authored_so_far <= velocity + 1
same_slot_budget_short(authored_so_far) == authored_so_far < velocity
same_slot_budget(authored_so_far) == authored_so_far < velocity + 1

\* u64::from(last_slot) < new_slot
slot_moves_backwards(last_slot, new_slot) == new_slot < last_slot
slot_moves_forward(last_slot, new_slot) == last_slot < new_slot

\* the capacity check made before the record is looked at
can_build_upon_capacity_first(info, size_after_included, new_slot) ==
    IF segment_full(size_after_included) THEN FALSE
    ELSE IF info = None THEN TRUE
    ELSE LET last_slot == unwrap(info)[1]
             authored_so_far == unwrap(info)[2]
         IN  IF last_slot = new_slot
             THEN same_slot_budget(authored_so_far)
             ELSE slot_moves_forward(last_slot, new_slot)

\* can_build_upon(included_hash, new_slot); size_after_included is
\* unincluded_segment_size_after(included_hash), read only when a record exists
can_build_upon(info, size_after_included, new_slot) ==
    IF info = None THEN TRUE
    ELSE LET last_slot == unwrap(info)[1]
             authored_so_far == unwrap(info)[2]
         IN  IF segment_full(size_after_included) THEN FALSE
             ELSE IF last_slot = new_slot
                  THEN same_slot_budget(authored_so_far)
                  ELSE slot_moves_forward(last_slot, new_slot)

(* ------------------------ relay-storage-roots -------------------------- *)

EmptyMap == [k \in {} |-> "r1"]
contains_key_never(map, k) == FALSE
contains_key(map, k) == k \in DOMAIN map
insert_nothing(map, k, v) == map
insert(map, k, v) == [x \in DOMAIN map \cup {k} |-> IF x = k THEN v ELSE map[x]]
remove_nothing(map, k) == map
remove(map, k) == [x \in DOMAIN map \ {k} |-> map[x]]

\* <RelayStorageRootKeys<T>>::get(): a stored list longer than the bound of the
\* BoundedVec does not decode, and the ValueQuery default (empty) is returned
keys_get_unchecked(stored, bound) == stored
keys_get(stored, bound) == IF Len(stored) > bound THEN <<>> ELSE stored

\* BoundedVec::truncate_from(keys): the first `bound` elements
truncate_from(keys, bound) ==
    IF Len(keys) > bound THEN SubSeq(keys, 1, bound) ELSE keys

\* u32::try_from(keys.len()).unwrap() > T::MaxStorageRoots::get()
over_limit_inclusive(len, bound) == len >= bound
over_limit(len, bound) == len > bound

\* the eviction taking the newest key (pop_back) instead of the oldest
set_relay_storage_root_pop_back(map, stored, bound, state) ==
    IF contains_key(map, state.number)
    THEN [map |-> map, keys |-> stored]
    ELSE LET map1 == insert(map, state.number, state.state_root)
             keys1 == Append(keys_get(stored, bound), state.number)
             evict == over_limit(Len(keys1), bound)
             last_key == keys1[Len(keys1)]
             map2 == IF evict THEN remove(map1, last_key) ELSE map1
             keys2 == IF evict THEN SubSeq(keys1, 1, Len(keys1) - 1) ELSE keys1
         IN  [map |-> map2, keys |-> truncate_from(keys2, bound)]

\* set_relay_storage_root() with relay_state the provider's report: the new
\* (map, key list)
set_relay_storage_root(map, stored, bound, state) ==
    IF contains_key(map, state.number)
    THEN [map |-> map, keys |-> stored]
    ELSE LET map1 == insert(map, state.number, state.state_root)
             keys1 == Append(keys_get(stored, bound), state.number)
             evict == over_limit(Len(keys1), bound)
             first_key == Head(keys1)
             map2 == IF evict THEN remove(map1, first_key) ELSE map1
             keys2 == IF evict THEN Tail(keys1) ELSE keys1
         IN  [map |-> map2, keys |-> truncate_from(keys2, bound)]

(* --------------- the inherent that writes the slot record -------------- *)
\* The record is written outside consensus_hook.rs: a block authored at
\* new_slot makes it (new_slot, authored + 1) in the recorded slot and
\* (new_slot, 1) in a new one.
record_authorship(info, new_slot) ==
    IF info # None /\ unwrap(info)[1] = new_slot
    THEN Some(<<new_slot, unwrap(info)[2] + 1>>)
    ELSE Some(<<new_slot, 1>>)

SlotInfos == {None} \cup {Some(<<s, a>>) : s \in Slots, a \in 0..MaxAuthored}

NoCall == [op |-> "none"]
NoRun == [slot |-> None, k |-> 0, valid |-> FALSE]

\* the same-slot run of can_build_upon calls since the start, each made with
\* the unincluded segment below C
next_run(new_slot, size) ==
    IF run.valid /\ run.k < MaxAttempts /\ size < C
       /\ (run.slot = None \/ run.slot = Some(new_slot))
    THEN [slot |-> Some(new_slot), k |-> run.k + 1, valid |-> TRUE]
    ELSE NoRun

(* ------------------------------ actions -------------------------------- *)

\* block authoring: can_build_upon is asked, and a block is authored (the
\* record updated) only when it answers true
Author(included_hash, new_slot) ==
    LET size == unincluded[included_hash]
        res == can_build_upon(slot_info, size, new_slot)
    IN  /\ last' = [op |-> "can_build_upon", new_slot |-> new_slot, size |-> size,
                    pre |-> slot_info, result |-> res]
        /\ slot_info' = IF res THEN record_authorship(slot_info, new_slot) ELSE slot_info
        /\ run' = next_run(new_slot, size)
        /\ UNCHANGED <<V, C, unincluded, rvars>>

\* a bare query of can_build_upon
CanBuildUpon(included_hash, new_slot) ==
    LET size == unincluded[included_hash]
    IN  /\ last' = [op |-> "can_build_upon", new_slot |-> new_slot, size |-> size,
                    pre |-> slot_info,
                    result |-> can_build_upon(slot_info, size, new_slot)]
        /\ UNCHANGED <<V, C, slot_info, unincluded, run, rvars>>

\* the host validates a block's state proof
OnStateProof(read_slot) ==
    /\ last' = [op |-> "on_state_proof", read_slot |-> read_slot, pre |-> slot_info,
                ret |-> on_state_proof(read_slot, slot_info)]
    /\ UNCHANGED <<V, C, slot_info, unincluded, run, rvars>>

\* parachain_system: the unincluded segment after an included block changes
SegmentChange(included_hash, size) ==
    /\ unincluded[included_hash] # size
    /\ unincluded' = [unincluded EXCEPT ![included_hash] = size]
    /\ UNCHANGED <<V, C, slot_info, last, run, rvars>>

\* the relay-storage-roots pallet at genesis
RootsGenesis ==
    /\ RelayStorageRoot = EmptyMap
    /\ RelayStorageRootKeys = <<>>
    /\ relay_state = [number |-> 0, state_root |-> "r1"]
    /\ observed = <<>>
    /\ inserted = <<>>
    /\ phase = "idle"
    /\ upgrade = None
    /\ since = 0
    /\ monotone = TRUE

VelocityConfig ==
    /\ MaxStorageRoots = 0
    /\ RootsGenesis
    /\ V \in 0..MaxV
    /\ C \in 0..MaxC
    /\ unincluded \in [Hashes -> 0..MaxSegment]
    /\ last = NoCall

\* authoring from genesis: no record yet
Init ==
    /\ VelocityConfig
    /\ slot_info = None
    /\ run = [slot |-> None, k |-> 0, valid |-> TRUE]

Next ==
    \/ \E h \in Hashes, s \in Slots : Author(h, s)
    \/ \E rs \in {None} \cup {Some(s) : s \in Slots} : OnStateProof(rs)
    \/ \E h \in Hashes, n \in 0..MaxSegment : SegmentChange(h, n)

Spec == Init /\ [][Next]_vars

\* the hook over every record the storage can hold
HookInit ==
    /\ VelocityConfig
    /\ slot_info \in SlotInfos
    /\ run = NoRun

HookNext ==
    \/ \E h \in Hashes, s \in Slots : CanBuildUpon(h, s)
    \/ \E rs \in {None} \cup {Some(s) : s \in Slots} : OnStateProof(rs)
    \/ \E h \in Hashes, n \in 0..MaxSegment : SegmentChange(h, n)

HookSpec == HookInit /\ [][HookNext]_vars

(* --------------------- relay-storage-roots: actions -------------------- *)

Elems(seq) == {seq[i] : i \in 1..Len(seq)}

\* Hooks::on_finalize: set_relay_storage_root() on what the provider reports
OnFinalize(number, state_root) ==
    LET state == [number |-> number, state_root |-> state_root]
        new == set_relay_storage_root(RelayStorageRoot, RelayStorageRootKeys,
                                      MaxStorageRoots, state)
    IN  /\ Len(inserted) < MaxInserted
        /\ relay_state' = state
        /\ RelayStorageRoot' = new.map
        /\ RelayStorageRootKeys' = new.keys
        /\ observed' = IF number \in Elems(observed) THEN observed
                       ELSE Append(observed, number)
        /\ inserted' = IF number \in DOMAIN RelayStorageRoot THEN inserted
                       ELSE Append(inserted, number)
        /\ monotone' = (monotone /\ number >= relay_state.number)
        /\ UNCHANGED <<MaxStorageRoots, phase, upgrade, since, vvars>>

RootsInit ==
    /\ MaxStorageRoots \in 0..MaxRootsLimit
    /\ RootsGenesis
    /\ V = 0 /\ C = 0 /\ slot_info = None
    /\ unincluded = [h \in Hashes |-> 0]
    /\ last = NoCall /\ run = NoRun

RootsNext ==
    \E number \in RelayBlockNumbers, state_root \in H256 : OnFinalize(number, state_root)

RootsSpec == RootsInit /\ [][RootsNext]_vars

(* ----------------- relay-storage-roots: block lifecycle ---------------- *)

\* Hooks::on_initialize: returns the weight of on_finalize and writes nothing;
\* the (map, key list) it leaves
on_initialize_recording(map, stored, bound, state) ==
    set_relay_storage_root(map, stored, bound, state)
on_initialize(map, stored, bound, state) == [map |-> map, keys |-> stored]

\* a local block starts: from here on the provider reports the block's relay
\* state, and on_initialize runs
BeginBlock(number, state_root) ==
    LET state == [number |-> number, state_root |-> state_root]
        new == on_initialize(RelayStorageRoot, RelayStorageRootKeys,
                             MaxStorageRoots, state)
    IN  /\ phase = "idle"
        /\ Len(inserted) < MaxInserted
        /\ phase' = "executing"
        /\ relay_state' = state
        /\ RelayStorageRoot' = new.map
        /\ RelayStorageRootKeys' = new.keys
        /\ monotone' = (monotone /\ number >= relay_state.number)
        /\ UNCHANGED <<MaxStorageRoots, observed, inserted, upgrade, since, vvars>>

\* the block ends: Hooks::on_finalize calls set_relay_storage_root() once
FinalizeBlock ==
    LET new == set_relay_storage_root(RelayStorageRoot, RelayStorageRootKeys,
                                      MaxStorageRoots, relay_state)
        created == relay_state.number \notin DOMAIN RelayStorageRoot
    IN  /\ phase = "executing"
        /\ phase' = "idle"
        /\ RelayStorageRoot' = new.map
        /\ RelayStorageRootKeys' = new.keys
        /\ observed' = IF relay_state.number \in Elems(observed) THEN observed
                       ELSE Append(observed, relay_state.number)
        /\ inserted' = IF created THEN Append(inserted, relay_state.number) ELSE inserted
        /\ since' = IF created /\ upgrade # None THEN since + 1 ELSE since
        /\ UNCHANGED <<MaxStorageRoots, relay_state, upgrade, monotone, vvars>>

\* a runtime upgrade between two blocks lowers MaxStorageRoots; the storage
\* is left as it is
RuntimeUpgrade(bound) ==
    /\ phase = "idle"
    /\ upgrade = None
    /\ bound < MaxStorageRoots
    /\ MaxStorageRoots' = bound
    /\ upgrade' = Some([from |-> MaxStorageRoots, to |-> bound,
                        held |-> Len(RelayStorageRootKeys),
                        stale |-> DOMAIN RelayStorageRoot])
    /\ UNCHANGED <<RelayStorageRoot, RelayStorageRootKeys, relay_state, observed,
                   inserted, phase, since, monotone, vvars>>

BlockNext ==
    \/ \E number \in RelayBlockNumbers, state_root \in H256 : BeginBlock(number, state_root)
    \/ FinalizeBlock
    \/ \E bound \in 0..MaxRootsLimit : RuntimeUpgrade(bound)

BlockSpec == RootsInit /\ [][BlockNext]_vars

(* ======================= claims: velocity hook ========================= *)
Max(a, b) == IF a > b THEN a ELSE b

IsCanBuildUpon == last.op = "can_build_upon"
IsOnStateProof == last.op = "on_state_proof"
HadRecord == last.pre # None
PreSlot == unwrap(last.pre)[1]
PreAuthored == unwrap(last.pre)[2]

C2_Step ==
    slot_info' # None =>
        /\ unwrap(slot_info')[2] <= Max(V, 1) + 1
        /\ (slot_info # None => unwrap(slot_info')[1] >= unwrap(slot_info)[1])
        /\ on_state_proof(Some(unwrap(slot_info')[1]), slot_info').outcome = "return"
C2_RecordWithinBudget == [][C2_Step]_vars

\* a full record (count max(V,1) + 1) passed on_state_proof
C2_Witness ==
    /\ IsOnStateProof /\ HadRecord /\ last.pre = slot_info
    /\ PreAuthored = Max(V, 1) + 1
    /\ last.ret.outcome = "return"

\* C3 (as stated): a segment of size >= max(C, 1) makes can_build_upon return
\* false whether or not a record exists.
C3_FullSegmentAlwaysRefused ==
    (IsCanBuildUpon /\ last.size >= Max(C, 1)) => last.result = FALSE

\* C3 (amended): when a record exists, a segment of size >= max(C, 1) makes
\* can_build_upon return false, whatever the slot and the authored count.
C3_FullSegmentRefusedWithRecord ==
    (IsCanBuildUpon /\ HadRecord /\ last.size >= Max(C, 1)) => last.result = FALSE

\* a newer slot refused only because the segment is exactly at max(C, 1)
C3_Witness ==
    /\ IsCanBuildUpon /\ HadRecord /\ last.size = Max(C, 1)
    /\ last.new_slot > PreSlot
    /\ last.result = FALSE

\* C4: with no record can_build_upon returns true for every slot and every
\* size of the unincluded segment.
C4_NoRecordAlwaysTrue ==
    (IsCanBuildUpon /\ ~HadRecord) => last.result = TRUE

\* no record, a full segment, and the answer is true
C4_Witness ==
    /\ IsCanBuildUpon /\ ~HadRecord /\ last.size >= Max(C, 1) /\ C >= 1
    /\ last.result = TRUE

\* C5 (as stated): with a record and the segment below max(C, 1), every slot
\* strictly newer than the recorded one is admitted, for every C including 0.
C5_NewerSlotAdmittedBelowCapacity ==
    (IsCanBuildUpon /\ HadRecord /\ last.size < Max(C, 1) /\ last.new_slot > PreSlot)
        => last.result = TRUE

C8_AbortIffUnreadableOrOverBudget ==
    IsOnStateProof =>
        (last.ret.outcome = "panic"
            <=> (last.read_slot = None \/ (HadRecord /\ PreAuthored > Max(V, 1) + 1)))

\* a record with exactly max(V, 1) + 1 authored blocks is accepted
C8_Witness ==
    /\ IsOnStateProof /\ last.read_slot # None
    /\ HadRecord /\ PreAuthored = Max(V, 1) + 1
    /\ last.ret.outcome = "return"

\* C9: a returning on_state_proof gives capacity max(C, 1), never zero, and the
\* weight of one storage read; neither hook function changes persisted state.
C9_Step ==
    (last' # last /\ last'.op \in {"on_state_proof", "can_build_upon"}) =>
        /\ slot_info' = slot_info
        /\ unincluded' = unincluded
        /\ ((last'.op = "on_state_proof" /\ last'.ret.outcome = "return") =>
              (/\ last'.ret.capacity = Max(C, 1)
               /\ last'.ret.capacity >= 1
               /\ last'.ret.weight = [reads |-> 1, writes |-> 0]))
C9_ReturnsCapacityAndOneRead == [][C9_Step]_vars

\* C = 0: on_state_proof returned capacity 1
C9_Witness ==
    /\ IsOnStateProof /\ C = 0
    /\ last.ret.outcome = "return" /\ last.ret.capacity = 1

(* ==================== claims: relay storage roots ====================== *)
LastN(seq, n) == IF Len(seq) > n THEN SubSeq(seq, Len(seq) - n + 1, Len(seq)) ELSE seq
NoDuplicates(seq) == Cardinality(Elems(seq)) = Len(seq)

\* C10 (as stated): the key list is the sequence of distinct observed relay
\* numbers, in order of first observation, cut to its last MaxStorageRoots
\* elements (so of length MaxStorageRoots once that many were observed), and
\* no entry exists for a number never observed.
C10_KeysAreLastDistinctObserved ==
    /\ RelayStorageRootKeys = LastN(observed, MaxStorageRoots)
    /\ Len(observed) >= MaxStorageRoots => Len(RelayStorageRootKeys) = MaxStorageRoots
    /\ DOMAIN RelayStorageRoot \subseteq Elems(observed)

\* C10 (amended): the key list is the sequence of relay numbers observed while
\* they had no map entry (an evicted number observed again is appended again),
\* in order, cut to its last MaxStorageRoots elements: of length
\* MaxStorageRoots once that many were inserted; it is the sequence of distinct
\* observed numbers as long as no evicted number was observed again; no entry
\* exists for a number never observed.
C10_KeysAreLastInserted ==
    /\ RelayStorageRootKeys = LastN(inserted, MaxStorageRoots)
    /\ Len(inserted) >= MaxStorageRoots => Len(RelayStorageRootKeys) = MaxStorageRoots
    /\ NoDuplicates(inserted) => RelayStorageRootKeys = LastN(observed, MaxStorageRoots)
    /\ DOMAIN RelayStorageRoot \subseteq Elems(observed)

\* MaxStorageRoots = 3 and 0, 1, 3, 2 observed: the insertion of 2 evicts 0
\* and the list keeps the order of arrival
C10_Witness ==
    /\ MaxStorageRoots = 3
    /\ observed = <<0, 1, 3, 2>> /\ inserted = <<0, 1, 3, 2>>
    /\ RelayStorageRootKeys = <<1, 3, 2>>
    /\ DOMAIN RelayStorageRoot = {1, 2, 3}
    /\ relay_state.number = 2

\* C11: with MaxStorageRoots constant, the key list has no duplicate, its keys
\* are exactly the keys of the map, and its length is at most MaxStorageRoots.
C11_ListMatchesMap ==
    /\ NoDuplicates(RelayStorageRootKeys)
    /\ Elems(RelayStorageRootKeys) = DOMAIN RelayStorageRoot
    /\ Len(RelayStorageRootKeys) <= MaxStorageRoots

\* a full list after an eviction
C11_Witness ==
    /\ MaxStorageRoots = 2
    /\ Len(inserted) = 4
    /\ Len(RelayStorageRootKeys) = 2
    /\ Cardinality(DOMAIN RelayStorageRoot) = 2

FinalizeStep == phase = "executing" /\ phase' = "idle"
Reported == relay_state.number

\* C12: a call for a relay number that already has an entry changes neither
\* the map nor the key list, even if the provider reports another state root.
C12_Step ==
    (FinalizeStep /\ Reported \in DOMAIN RelayStorageRoot) =>
        /\ RelayStorageRoot' = RelayStorageRoot
        /\ RelayStorageRootKeys' = RelayStorageRootKeys
C12_StoredRootNeverOverwritten == [][C12_Step]_vars

\* a block reported another root for a stored number, and the stored one stays
C12_Witness ==
    /\ phase = "idle"
    /\ Reported \in DOMAIN RelayStorageRoot
    /\ RelayStorageRoot[Reported] # relay_state.state_root

\* C13 (as stated): for any sequence of reported relay numbers, an entry for a
\* number is created at most once.
C13_CreatedAtMostOnce == NoDuplicates(inserted)

\* C13 (amended): with MaxStorageRoots >= 1 and reported relay numbers that
\* never decrease, an entry for a number is created at most once.
C13_CreatedAtMostOnceIfMonotone ==
    (monotone /\ MaxStorageRoots >= 1) => NoDuplicates(inserted)

\* non-decreasing reports, one of them repeated, and an eviction
C13_Witness ==
    /\ monotone /\ MaxStorageRoots = 2 /\ upgrade = None
    /\ inserted = <<0, 1, 3>>
    /\ phase = "idle" /\ Reported = 3
    /\ RelayStorageRootKeys = <<1, 3>>

\* C14 (as stated): the key list is sorted in strictly increasing order.
C14_KeysStrictlyIncreasing ==
    \A i \in 1..(Len(RelayStorageRootKeys) - 1) :
        RelayStorageRootKeys[i] < RelayStorageRootKeys[i + 1]

\* C15 (as stated): an inserting call that brings the list over
\* MaxStorageRoots removes exactly the front of the list, from the map and from
\* the list, and nothing else, also after MaxStorageRoots was lowered.
C15_Step ==
    (/\ FinalizeStep
     /\ Reported \notin DOMAIN RelayStorageRoot
     /\ Len(RelayStorageRootKeys) + 1 > MaxStorageRoots) =>
        LET appended == Append(RelayStorageRootKeys, Reported)
        IN  /\ RelayStorageRootKeys' = Tail(appended)
            /\ DOMAIN RelayStorageRoot' =
                   (DOMAIN RelayStorageRoot \cup {Reported}) \ {Head(appended)}
C15_ExactlyTheFrontEvicted == [][C15_Step]_vars

LoweredFullList ==
    /\ upgrade # None
    /\ unwrap(upgrade).held = unwrap(upgrade).from
    /\ unwrap(upgrade).to >= 1

C17_StepAsStated ==
    (FinalizeStep /\ MaxStorageRoots >= 1) =>
        /\ Reported \in DOMAIN RelayStorageRoot'
        /\ Reported \in Elems(RelayStorageRootKeys')
C17_Step ==
    (FinalizeStep /\ MaxStorageRoots >= 1) =>
        /\ Reported \in DOMAIN RelayStorageRoot'
        /\ (upgrade = None => Reported \in Elems(RelayStorageRootKeys'))
C18_Step ==
    /\ (<<RelayStorageRoot, RelayStorageRootKeys>>' # <<RelayStorageRoot, RelayStorageRootKeys>>
            => FinalizeStep)
    /\ (phase' = "executing" =>
            (relay_state'.number \in DOMAIN RelayStorageRoot'
                => relay_state'.number \in Elems(inserted')))
C18_OnlyFinalizeWrites == [][C18_Step]_vars

\* a block executes on a relay number no block recorded: the map has no entry
C18_Witness ==
    /\ phase = "executing"
    /\ RelayStorageRoot # EmptyMap
    /\ Reported \notin DOMAIN RelayStorageRoot
    /\ Reported \notin Elems(observed)

====
